---- MODULE Spec2Model ----
(***************************************************************************)
(* Movement / energy simulation of src/src/cell_genesis/core/physics.py:   *)
(* Player (tiered speed ceiling, smoothed velocity, friction, energy),     *)
(* SlowZone (circle overlap test) and MyGame (key events, the per-frame    *)
(* on_update, the camera interpolation).                                   *)
(*                                                                         *)
(* Arithmetic.  The program computes in IEEE doubles; the model computes   *)
(* in decimal fixed point with round-half-to-even after every product and  *)
(* quotient, the rounding mode of the doubles.  Each quantity has its own  *)
(* resolution, chosen so that every constant of the program is exactly     *)
(* representable and every intermediate product fits a 32-bit integer:     *)
(*   velocities and speed ceilings   1/VScale   (0.0005)                   *)
(*   positions and camera origin     1/PScale   (0.01)                     *)
(*   energy                          1/EScale   (0.0000005)                *)
(* Positions are coarser than velocities, as a double of magnitude 1..1000 *)
(* is coarser than a double near zero: adding a velocity of a few units in *)
(* the last place to a position leaves the position unchanged.             *)
(***************************************************************************)
EXTENDS Integers, Sequences, FiniteSets, TLC

VARIABLES
    center_x, center_y,                  \* Player.center_x / center_y     (PScale)
    velocity_x, velocity_y,              \* Player.velocity_x / velocity_y (VScale)
    target_velocity_x, target_velocity_y,\* Player.target_velocity_*       (VScale)
    current_max_speed,                   \* Player.current_max_speed       (VScale)
    base_speed, target_max_speed,        \* Player.base_speed / target_max_speed (int)
    energy,                              \* Player.energy                  (EScale)
    in_slow_zone,                        \* Player.in_slow_zone
    slow_zones,                          \* MyGame.slow_zones: list of zone centres
    pressed_keys,                        \* MyGame.pressed_keys
    camera_x, camera_y,                  \* MyGame.camera_x / camera_y     (PScale)
    ticks,                               \* on_update calls so far (see the specifications)
    events,                              \* key events so far
    cell,                                \* a Cell of core/cell.py
    coin_game,                           \* the MyGame window of ai/behavior.py
    keyboard                             \* keys held down at the coin game's window

vars == <<center_x, center_y, velocity_x, velocity_y, target_velocity_x,
          target_velocity_y, current_max_speed, base_speed, target_max_speed,
          energy, in_slow_zone, slow_zones, pressed_keys, camera_x, camera_y,
          ticks, events, cell, coin_game, keyboard>>

\* the state of the programs of cell.py and behavior.py
otherVars == <<cell, coin_game, keyboard>>

playerVars == <<center_x, center_y, velocity_x, velocity_y, target_velocity_x,
                target_velocity_y, current_max_speed, base_speed,
                target_max_speed, energy, in_slow_zone>>

(***************************************************************************)
(* Bounds of the model.                                                    *)
(***************************************************************************)
\* on_update calls explored under free input (Spec)
MaxTicks == 7
\* key press / release events explored under free input (Spec)
MaxKeyEvents == 2
\* zones in a layout
MaxZones == 1
\* frames with the keys held in a long run (SpecRun)
MaxRunTicks == 4800
\* keys held in a long run (SpecRun)
MaxHeld == 2
\* frames with the keys held before a release (SpecCoast)
MaxCoastTicks == 60
\* consecutive applications of the speed ramp (SpecRamp)
MaxRampSteps == 12
\* zones in a layout, and frames, of the runs past several zones (SpecZones)
MaxZoneList == 2
MaxZoneTicks == 8
\* update_camera calls with a stationary actor (SpecCamera)
MaxCameraCalls == 120

(***************************************************************************)
(* Resolutions of the fixed-point arithmetic.                              *)
(***************************************************************************)
VScale == 2000
PScale == 100
EScale == 2000000

(***************************************************************************)
(* Program constants.                                                      *)
(***************************************************************************)
SCREEN_WIDTH == 1000
SCREEN_HEIGHT == 700
PLAYER_RADIUS == 20
SLOW_ZONE_RADIUS == 60

\* Player.max_energy = 100.0
max_energy == 100 * EScale
\* acceleration_rate set to 0.1
acceleration_rate_Half == VScale \div 10
\* Player.acceleration_rate = 0.2, as a speed step
acceleration_rate == (2 * VScale) \div 10
\* Player.deceleration_rate = 0.3, as a speed step
deceleration_rate == (3 * VScale) \div 10
\* the literal 0.1 of Player.update (dead zone, movement threshold), as a speed
Threshold == VScale \div 10
\* the literal 0.2 of Player.update (passive recovery), as an energy
Recovery == (2 * EScale) \div 10

\* Player.energy_speed_levels: (min energy, max energy, speed)
energy_speed_levels ==
    << <<80, 100, 10>>, <<60, 80, 8>>, <<40, 60, 6>>,
       <<20, 40, 4>>, <<1, 20, 2>>, <<0, 1, 1>> >>

(***************************************************************************)
(* Arithmetic helpers.                                                     *)
(***************************************************************************)
Abs(a) == IF a < 0 THEN -a ELSE a
Min(a, b) == IF a < b THEN a ELSE b
Max(a, b) == IF a > b THEN a ELSE b

\* a / b rounded to the nearest integer, ties to even (b > 0)
RoundDiv(a, b) ==
    LET q == a \div b
        r == a % b
    IN  IF 2 * r > b THEN q + 1
        ELSE IF 2 * r < b THEN q
        ELSE IF q % 2 = 0 THEN q ELSE q + 1

\* the largest r in 0..46340 with r * r <= n, by bisection
SqrtSearch(n) ==
    LET search[lo \in 0..46340, hi \in 0..46340] ==
            IF lo >= hi THEN lo
            ELSE LET mid == (lo + hi + 1) \div 2
                 IN  IF mid * mid <= n THEN search[mid, hi]
                     ELSE search[lo, mid - 1]
    IN  search[0, 46340]

\* sqrt(n) rounded to the nearest integer (n < 2^31)
SqrtRound(n) ==
    LET r == SqrtSearch(n)
    IN  IF n - r * r > r THEN r + 1 ELSE r

\* math.hypot(a, b), in the unit of a and b
hypot(a, b) == SqrtRound(a * a + b * b)

(***************************************************************************)
(* Floating-point sums.  A sum of two fixed-point values is exact, a sum   *)
(* of two doubles is rounded to the significand.  Where the rounding of a  *)
(* sum itself is in question the sum is computed in binary floating point  *)
(* with a significand of Significand bits (53 in the program), over the    *)
(* same units: large enough to hold every tier speed and every multiple of *)
(* acceleration_rate up to the top speed exactly, as the doubles hold the  *)
(* integers exactly.                                                       *)
(***************************************************************************)
Significand == 11

\* the number of binary digits of n >= 0
BitLen(n) == IF n = 0 THEN 0 ELSE CHOOSE b \in 1..30 : 2^(b - 1) <= n /\ n < 2^b

\* the unit in the last place of a float of magnitude n
Ulp(n) == IF BitLen(n) <= Significand THEN 1 ELSE 2^(BitLen(n) - Significand)

\* n >= 0 rounded to the nearest float, ties to even
Fl(n) == RoundDiv(n, Ulp(n)) * Ulp(n)

(***************************************************************************)
(* Player                                                                  *)
(***************************************************************************)
RECURSIVE TierScan(_, _)
\* the for / else of update_speed from tier i on: the speed of the first tier
\* with min_e <= energy < max_e, and 1 when the loop ends without a break
TierScan(e, i) ==
    IF i > Len(energy_speed_levels) THEN 1
    ELSE LET min_e == energy_speed_levels[i][1]
             max_e == energy_speed_levels[i][2]
             speed == energy_speed_levels[i][3]
         IN  IF min_e * EScale <= e /\ e < max_e * EScale THEN speed
             ELSE TierScan(e, i + 1)

\* BaseSpeedFor without the tiers: the top speed at every energy
BaseSpeedFor_TopOnly(e) == energy_speed_levels[1][3]

\* BaseSpeedFor with every tier test min_e < energy <= max_e (energies are
\* whole numbers of units, so this is the tier of the energy one unit lower)
BaseSpeedFor_UpperInclusive(e) == TierScan(e - 1, 1)

\* update_speed: base_speed for energy e
BaseSpeedFor(e) == TierScan(e, 1)

\* TargetMaxSpeedFor without the floor max(..., 1)
TargetMaxSpeedFor_NoFloor(b, z) == b - (IF z THEN 2 ELSE 0)

\* update_speed: target_max_speed from base_speed b and the zone flag z
TargetMaxSpeedFor(b, z) == Max(b - (IF z THEN 2 ELSE 0), 1)

\* direction_map with the keys of the direction down bound to the vector of up
direction_map_DownIsUp ==
    [k \in {"W", "S", "A", "D", "UP", "DOWN", "LEFT", "RIGHT"} |->
        CASE k \in {"W", "UP", "S", "DOWN"} -> <<0, 1>>
          [] k \in {"A", "LEFT"} -> <<-1, 0>>
          [] k \in {"D", "RIGHT"} -> <<1, 0>>]

\* handle_input: direction_map, key -> (dx, dy)
direction_map ==
    [k \in {"W", "S", "A", "D", "UP", "DOWN", "LEFT", "RIGHT"} |->
        CASE k \in {"W", "UP"} -> <<0, 1>>
          [] k \in {"S", "DOWN"} -> <<0, -1>>
          [] k \in {"A", "LEFT"} -> <<-1, 0>>
          [] k \in {"D", "RIGHT"} -> <<1, 0>>]

RECURSIVE InputSum(_, _, _)
\* handle_input: the loop over pressed_keys, for one axis (1: x, 2: y), adding
\* d * current_max_speed for every key of direction_map
InputSum(keys, axis, cms) ==
    IF keys = {} THEN 0
    ELSE LET key == CHOOSE k \in keys : TRUE
         IN  (IF key \in DOMAIN direction_map
              THEN direction_map[key][axis] * cms ELSE 0)
             + InputSum(keys \ {key}, axis, cms)

\* RampSpeed whose downward step is not stopped at the target
RampSpeed_PastTarget(cms, t) ==
    IF cms < t * VScale THEN Min(cms + acceleration_rate, t * VScale)
    ELSE IF cms > t * VScale THEN cms - deceleration_rate
    ELSE cms

\* update, step 2: current_max_speed moved toward target_max_speed t (an int)
RampSpeed(cms, t) ==
    IF cms < t * VScale THEN Min(cms + acceleration_rate, t * VScale)
    ELSE IF cms > t * VScale THEN Max(cms - deceleration_rate, t * VScale)
    ELSE cms

\* the ramp without steps: current_max_speed set to its target at once
RampSpeedFloat_Jump(cms, t) == t * VScale

\* update, step 2, with the sum and the difference rounded as floats
RampSpeedFloat(cms, t) ==
    IF cms < t * VScale THEN Min(Fl(cms + acceleration_rate), t * VScale)
    ELSE IF cms > t * VScale THEN Max(Fl(cms - deceleration_rate), t * VScale)
    ELSE cms

\* SmoothAxis without the dead zone: the interpolation runs at every gap
SmoothAxis_NoDeadZone(current, target) ==
    current + RoundDiv((target - current) * (IF target # 0 THEN 2 ELSE 3), 10)

\* update, step 3, one axis: current + (target - current) * rate when the gap
\* exceeds 0.1; rate is 0.2 for a non-zero target and 0.3 for a zero one
SmoothAxis(current, target) ==
    LET rate == IF target # 0 THEN 2 ELSE 3
    IN  IF Abs(current - target) > Threshold
        THEN current + RoundDiv((target - current) * rate, 10)
        ELSE current

\* Friction with the coefficient 1.3
Friction_Gain(v, tvx, tvy) ==
    IF tvx = 0 /\ tvy = 0 THEN RoundDiv(v * 130, 100) ELSE v

\* update, step 4, one axis: velocity *= friction (0.92) when both targets are 0
Friction(v, tvx, tvy) ==
    IF tvx = 0 /\ tvy = 0 THEN RoundDiv(v * 92, 100) ELSE v

\* ClampAxis scaling by the ceiling of the double-key target (2 * cms)
\* instead of the ceiling itself
ClampAxis_Loose(v, speed, cms) ==
    IF speed > 2 * cms THEN RoundDiv(v * 2 * cms, speed) ELSE v

\* the guard of the scaling dropped: scale is computed on every frame
ClampDivides_Always(speed, cms) == TRUE

\* update, step 5: the guard of the scaling, speed > current_max_speed; when
\* it holds scale = current_max_speed / speed is computed
ClampDivides(speed, cms) == speed > cms

\* update, step 5, one axis: velocity *= current_max_speed / speed when
\* speed > current_max_speed.  A division by a speed of 0 raises
\* ZeroDivisionError before the velocity is assigned, which keeps its value.
ClampAxis(v, speed, cms) ==
    IF ~ClampDivides(speed, cms) THEN v
    ELSE IF speed = 0 THEN v
    ELSE RoundDiv(v * cms, speed)

\* EnergyAfter with the recovery neither conditional on energy < max_energy
\* nor capped by min(max_energy, ...)
EnergyAfter_RecoverUncapped(e, speed) ==
    IF speed > Threshold THEN Max(0, e - speed * ((5 * EScale) \div (1000 * VScale)))
    ELSE e + Recovery

\* EnergyAfter without the floor max(0, ...)
EnergyAfter_NoFloor(e, speed) ==
    IF speed > Threshold THEN e - speed * ((5 * EScale) \div (1000 * VScale))
    ELSE IF e < max_energy THEN Min(max_energy, e + Recovery)
    ELSE e

\* EnergyAfter without the recovery branch: a slow tick leaves the energy
EnergyAfter_NoRecovery(e, speed) ==
    IF speed > Threshold THEN Max(0, e - speed * ((5 * EScale) \div (1000 * VScale)))
    ELSE e

\* update, step 6: energy after a tick of speed `speed` (VScale);
\* energy_consumption 0.005 per unit of speed is 5 energy units per speed unit
EnergyAfter(e, speed) ==
    IF speed > Threshold THEN Max(0, e - speed * ((5 * EScale) \div (1000 * VScale)))
    ELSE IF e < max_energy THEN Min(max_energy, e + Recovery)
    ELSE e

\* Integrate adding the velocity twice
Integrate_Twice(c, v) == c + 2 * RoundDiv(v, VScale \div PScale)

\* update, step 7, one axis: center += velocity
Integrate(c, v) == c + RoundDiv(v, VScale \div PScale)

(***************************************************************************)
(* SlowZone                                                                *)
(***************************************************************************)
\* check_collision with <= in place of <: touching circles collide
check_collision_Inclusive(zone, player_x, player_y, player_radius) ==
    LET dx == player_x - zone[1] * PScale
        dy == player_y - zone[2] * PScale
        reach == (player_radius + SLOW_ZONE_RADIUS) * PScale
    IN  IF Abs(dx) > reach \/ Abs(dy) > reach THEN FALSE
        ELSE hypot(dx, dy) <= reach

\* SlowZone.check_collision for the zone centred at zone = <<x, y>> (world
\* units).  hypot is at least either offset, so an offset of the sum of the
\* radii or more decides the test without squaring it.
check_collision(zone, player_x, player_y, player_radius) ==
    LET dx == player_x - zone[1] * PScale
        dy == player_y - zone[2] * PScale
        reach == (player_radius + SLOW_ZONE_RADIUS) * PScale
    IN  IF Abs(dx) >= reach \/ Abs(dy) >= reach THEN FALSE
        ELSE hypot(dx, dy) < reach

\* AnyCollision testing only the zone at index i, not the zones after it
AnyCollision_FirstOnly(zones, i, px, py, pr) ==
    IF i > Len(zones) THEN FALSE
    ELSE check_collision(zones[i], px, py, pr)

RECURSIVE AnyCollision(_, _, _, _, _)
\* check_slow_zones: any(zone.check_collision(px, py, pr) for zone in slow_zones),
\* scanning the list from index i and stopping at the first hit
AnyCollision(zones, i, px, py, pr) ==
    IF i > Len(zones) THEN FALSE
    ELSE IF check_collision(zones[i], px, py, pr) THEN TRUE
    ELSE AnyCollision(zones, i + 1, px, py, pr)

(***************************************************************************)
(* Cell (core/cell.py).  A Cell is a record of its fields; its energy is   *)
(* held in units of 1 / CScale, so that metabolism_cost 0.5 is one unit.   *)
(***************************************************************************)
CScale == 2

\* Cell.__init__: radius is passed as 5, genes are {'speed': 1.0, 'size': 1.0},
\* metabolism_cost is 0.5
Cell(x, y, vx, vy, e) ==
    [x |-> x, y |-> y, vx |-> vx, vy |-> vy, energy |-> e, radius |-> 5,
     genes |-> [speed |-> 1, size |-> 1], metabolism_cost |-> CScale \div 2]

\* Cell.update paying the cost only while the energy is positive and never
\* going below zero
Cell_update_Floored(c) ==
    [c EXCEPT !.energy = IF c.energy > 0 THEN Max(0, c.energy - c.metabolism_cost)
                         ELSE c.energy,
              !.x = c.x + c.vx * c.genes.speed,
              !.y = c.y + c.vy * c.genes.speed,
              !.radius = 5 * c.genes.size]

\* Cell.update: the cell after the call
Cell_update(c) ==
    [c EXCEPT !.energy = c.energy - c.metabolism_cost,
              !.x = c.x + c.vx * c.genes.speed,
              !.y = c.y + c.vy * c.genes.speed,
              !.radius = 5 * c.genes.size]

\* Cell.set_velocity
set_velocity(c, vx, vy) == [c EXCEPT !.vx = vx, !.vy = vy]

\* Cell.set_genes with both arguments given
set_genes(c, speed, size) == [c EXCEPT !.genes = [speed |-> speed, size |-> size]]

\* Cell.add_energy (amount in units of 1 / CScale)
add_energy(c, amount) == [c EXCEPT !.energy = c.energy + amount]

\* Cell.is_alive
is_alive(c) == c.energy > 0

(***************************************************************************)
(* MyGame of the coin game (ai/behavior.py).  The game is a record of the  *)
(* window's fields; a coin is a record x, y, radius, collected.            *)
(***************************************************************************)
\* coins of a game in the model (COIN_COUNT is 50 in the program)
MaxCoins == 3

COIN_COUNT == MaxCoins

\* MyGame.__init__ with the coins the random draws produced, given as a
\* sequence of <<x, y, radius>>
CoinGame(spots) ==
    [x |-> 400, y |-> 300,
     coins |-> [i \in 1..Len(spots) |->
                   [x |-> spots[i][1], y |-> spots[i][2], radius |-> spots[i][3],
                    collected |-> FALSE]],
     score |-> 10,
     left_pressed |-> FALSE, right_pressed |-> FALSE,
     up_pressed |-> FALSE, down_pressed |-> FALSE]

\* on_update, lines 46 - 53: the position after the four movement tests
MoveX(g) ==
    g.x - (IF g.left_pressed /\ ~g.right_pressed THEN 1 ELSE 0)
        + (IF g.right_pressed /\ ~g.left_pressed THEN 1 ELSE 0)

MoveY(g) ==
    g.y + (IF g.up_pressed /\ ~g.down_pressed THEN 1 ELSE 0)
        - (IF g.down_pressed /\ ~g.up_pressed THEN 1 ELSE 0)

\* on_update, lines 57 - 60: distance < 10 + coin['radius'], the distance
\* being the root of an integer, so the test is the test of the squares
Touches(px, py, coin) ==
    (px - coin.x) * (px - coin.x) + (py - coin.y) * (py - coin.y)
        < (10 + coin.radius) * (10 + coin.radius)

\* Collects testing the coins whose flag is set as well
Collects_Again(px, py, coin) == Touches(px, py, coin)

\* on_update, lines 55 - 60: the coin is collected by an update at (px, py)
Collects(px, py, coin) == ~coin.collected /\ Touches(px, py, coin)

\* MyGame.on_update: the game after the call
coin_on_update(g) ==
    LET px == MoveX(g)
        py == MoveY(g)
        hit == { i \in 1..Len(g.coins) : Collects(px, py, g.coins[i]) }
    IN  [g EXCEPT !.x = px, !.y = py,
                  !.coins = [i \in 1..Len(g.coins) |->
                                IF i \in hit
                                THEN [g.coins[i] EXCEPT !.collected = TRUE]
                                ELSE g.coins[i]],
                  !.score = g.score + Cardinality(hit)]

\* MyGame.on_key_press: the game after the call
coin_on_key_press(g, key) ==
    IF key = "LEFT" \/ key = "A" THEN [g EXCEPT !.left_pressed = TRUE]
    ELSE IF key = "RIGHT" \/ key = "D" THEN [g EXCEPT !.right_pressed = TRUE]
    ELSE IF key = "UP" \/ key = "W" THEN [g EXCEPT !.up_pressed = TRUE]
    ELSE IF key = "DOWN" \/ key = "S" THEN [g EXCEPT !.down_pressed = TRUE]
    ELSE g

\* MyGame.on_key_release: the game after the call
coin_on_key_release(g, key) ==
    IF key = "LEFT" \/ key = "A" THEN [g EXCEPT !.left_pressed = FALSE]
    ELSE IF key = "RIGHT" \/ key = "D" THEN [g EXCEPT !.right_pressed = FALSE]
    ELSE IF key = "UP" \/ key = "W" THEN [g EXCEPT !.up_pressed = FALSE]
    ELSE IF key = "DOWN" \/ key = "S" THEN [g EXCEPT !.down_pressed = FALSE]
    ELSE g

\* coin places the layouts draw from, <<x, y, radius>> within the ranges of
\* the randint calls: three within a few steps of the start (400, 300) and
\* one out of reach
CoinSpots == << <<400, 300, 15>>, <<433, 300, 20>>, <<400, 322, 10>>, <<50, 550, 10>> >>

\* the coin lists of the model: the near places only, and all places in turn
CoinLayouts ==
    { [i \in 1..COIN_COUNT |-> CoinSpots[((i - 1) % 3) + 1]],
      [i \in 1..COIN_COUNT |-> CoinSpots[(i % 4) + 1]] }

\* the programs of cell.py and behavior.py as constructed and not running
OthersIdle ==
    /\ cell = Cell(0, 0, 0, 0, 100 * CScale)
    /\ coin_game = CoinGame(<<>>)
    /\ keyboard = {}

(***************************************************************************)
(* MyGame                                                                  *)
(***************************************************************************)
\* CameraStep with the factor 0.2
CameraStep_Fifth(camera, center, extent) ==
    LET target == center - (extent \div 2) * PScale
    IN  camera + RoundDiv(target - camera, 5)

\* update_camera, one axis: camera += (target - camera) * 0.1, the target being
\* the player centre minus half the screen extent
CameraStep(camera, center, extent) ==
    LET target == center - (extent \div 2) * PScale
    IN  camera + RoundDiv(target - camera, 10)

\* keys the window reports in the model: two keys of one direction, a key of
\* each other direction, and a key that is no movement key
Keys == {"W", "UP", "S", "A", "D", "SPACE"}

\* zone centres a layout draws from (world units, the integers of randint)
ZoneCentres == { <<79, 0>>, <<80, 0>>, <<81, 0>>, <<80, 1>>, <<-79, 12>> }

RECURSIVE Layouts(_)
\* the zone lists of length n
Layouts(n) ==
    IF n = 0 THEN { <<>> }
    ELSE { Append(l, z) : l \in Layouts(n - 1), z \in ZoneCentres }

ZoneLayouts == UNION { Layouts(n) : n \in 0..MaxZones }

\* a game with the Player as __init__ builds it (at rest, no key down, the
\* speed fields as update_speed left them at construction), but standing at
\* (px, py) with energy e and zone flag z, and the camera origin at (cam_x, cam_y)
AtRest(px, py, e, z, cam_x, cam_y) ==
    /\ center_x = px /\ center_y = py
    /\ velocity_x = 0 /\ velocity_y = 0
    /\ target_velocity_x = 0 /\ target_velocity_y = 0
    /\ current_max_speed = 0
    /\ energy = e
    /\ in_slow_zone = z
    /\ base_speed = BaseSpeedFor(max_energy)
    /\ target_max_speed = TargetMaxSpeedFor(BaseSpeedFor(max_energy), FALSE)
    /\ pressed_keys = {}
    /\ camera_x = cam_x
    /\ camera_y = cam_y
    /\ ticks = 0 /\ events = 0
    /\ OthersIdle

\* Setup without the last two lines of setup: the camera origin stays where
\* __init__ put it, at (0, 0)
Setup_CameraAtOrigin == AtRest(0, 0, max_energy, FALSE, 0, 0)

\* MyGame.__init__ and setup: a fresh Player at the origin with full energy,
\* the camera centred on it
Setup ==
    AtRest(0, 0, max_energy, FALSE,
           0 - (SCREEN_WIDTH \div 2) * PScale, 0 - (SCREEN_HEIGHT \div 2) * PScale)

\* on_update with check_slow_zones moved in front of update: the speed lookup
\* of a frame sees the zone test of the same frame
on_update_ZoneFirst ==
    \E tvx \in {InputSum(pressed_keys, 1, current_max_speed)},
       tvy \in {InputSum(pressed_keys, 2, current_max_speed)},
       bs \in {BaseSpeedFor(energy)},
       z \in {AnyCollision(slow_zones, 1, center_x, center_y, PLAYER_RADIUS)} :
    \E tms \in {TargetMaxSpeedFor(bs, z)} :
    \E cms \in {RampSpeed(current_max_speed, tms)},
       fx \in {Friction(SmoothAxis(velocity_x, tvx), tvx, tvy)},
       fy \in {Friction(SmoothAxis(velocity_y, tvy), tvx, tvy)} :
    \E speed \in {hypot(fx, fy)} :
    \E vx \in {ClampAxis(fx, speed, cms)},
       vy \in {ClampAxis(fy, speed, cms)} :
    \E px \in {Integrate(center_x, vx)},
       py \in {Integrate(center_y, vy)} :
        /\ target_velocity_x' = tvx
        /\ target_velocity_y' = tvy
        /\ base_speed' = bs
        /\ target_max_speed' = tms
        /\ current_max_speed' = cms
        /\ velocity_x' = vx
        /\ velocity_y' = vy
        /\ energy' = EnergyAfter(energy, speed)
        /\ center_x' = px
        /\ center_y' = py
        /\ in_slow_zone' = z
        /\ camera_x' = CameraStep(camera_x, px, SCREEN_WIDTH)
        /\ camera_y' = CameraStep(camera_y, py, SCREEN_HEIGHT)
        /\ UNCHANGED <<slow_zones, pressed_keys, events, otherVars>>

\* on_update: handle_input(pressed_keys), update, check_slow_zones, update_camera
on_update ==
    \E tvx \in {InputSum(pressed_keys, 1, current_max_speed)},
       tvy \in {InputSum(pressed_keys, 2, current_max_speed)},
       bs \in {BaseSpeedFor(energy)} :
    \E tms \in {TargetMaxSpeedFor(bs, in_slow_zone)} :
    \E cms \in {RampSpeed(current_max_speed, tms)},
       fx \in {Friction(SmoothAxis(velocity_x, tvx), tvx, tvy)},
       fy \in {Friction(SmoothAxis(velocity_y, tvy), tvx, tvy)} :
    \E speed \in {hypot(fx, fy)} :
    \E vx \in {ClampAxis(fx, speed, cms)},
       vy \in {ClampAxis(fy, speed, cms)} :
    \E px \in {Integrate(center_x, vx)},
       py \in {Integrate(center_y, vy)} :
        /\ target_velocity_x' = tvx
        /\ target_velocity_y' = tvy
        /\ base_speed' = bs
        /\ target_max_speed' = tms
        /\ current_max_speed' = cms
        /\ velocity_x' = vx
        /\ velocity_y' = vy
        /\ energy' = EnergyAfter(energy, speed)
        /\ center_x' = px
        /\ center_y' = py
        /\ in_slow_zone' = AnyCollision(slow_zones, 1, px, py, PLAYER_RADIUS)
        /\ camera_x' = CameraStep(camera_x, px, SCREEN_WIDTH)
        /\ camera_y' = CameraStep(camera_y, py, SCREEN_HEIGHT)
        /\ UNCHANGED <<slow_zones, pressed_keys, events, otherVars>>

\* on_key_press that also translates the new key set into the target velocity
\* at once, as a handle_input call inside the event handler would
on_key_press_Eager(key) ==
    /\ pressed_keys' = pressed_keys \cup {key}
    /\ events' = events + 1
    /\ target_velocity_x' = InputSum(pressed_keys \cup {key}, 1, current_max_speed)
    /\ target_velocity_y' = InputSum(pressed_keys \cup {key}, 2, current_max_speed)
    /\ UNCHANGED <<center_x, center_y, velocity_x, velocity_y, current_max_speed,
                   base_speed, target_max_speed, energy, in_slow_zone,
                   slow_zones, camera_x, camera_y, ticks,
                   otherVars>>

\* on_key_press: pressed_keys.add(key)
on_key_press(key) ==
    /\ pressed_keys' = pressed_keys \cup {key}
    /\ events' = events + 1
    /\ UNCHANGED <<playerVars, slow_zones, camera_x, camera_y, ticks, otherVars>>

\* on_key_release: pressed_keys.discard(key)
on_key_release(key) ==
    /\ pressed_keys' = pressed_keys \ {key}
    /\ events' = events + 1
    /\ UNCHANGED <<playerVars, slow_zones, camera_x, camera_y, ticks, otherVars>>

(***************************************************************************)
(* Spec: the game under free input over a short horizon.  Between two      *)
(* frames the window may report a key going down (a key that is up) or up  *)
(* (a key that is down); any zone layout of up to MaxZones zones.          *)
(***************************************************************************)
Init == Setup /\ slow_zones \in ZoneLayouts

Tick == ticks < MaxTicks /\ on_update /\ ticks' = ticks + 1

KeyPress == \E key \in Keys \ pressed_keys :
                events < MaxKeyEvents /\ on_key_press(key)

KeyRelease == \E key \in pressed_keys :
                events < MaxKeyEvents /\ on_key_release(key)

Next == Tick \/ KeyPress \/ KeyRelease

Spec == Init /\ [][Next]_vars

(***************************************************************************)
(* Runs with held keys.  Keys go down before the first frame and are held; *)
(* at one of a set of frames (or never) they are all released between two  *)
(* frames, and the actor coasts from then on.  `ticks` counts the frames   *)
(* with the keys held.                                                     *)
(***************************************************************************)
HoldKeys == {"D", "W", "UP"}

\* no key has been released yet
Holding == events = Cardinality(pressed_keys)

\* all keys have been released again
Coasting == pressed_keys = {} /\ events > 0

\* on_update while the keys are held (up to frame cap) and while coasting
TickHeld(cap) ==
    /\ (Holding /\ ticks < cap) \/ Coasting
    /\ on_update
    /\ ticks' = IF Holding THEN ticks + 1 ELSE ticks

\* on_key_press of one more key before the first frame
KeyPressHeld == \E key \in HoldKeys \ pressed_keys :
    /\ ticks = 0 /\ Holding /\ events < MaxHeld
    /\ on_key_press(key)

\* on_key_release of the held keys, all between the same two frames, after
\* one of the frames `frames`
KeyReleaseHeld(frames) == \E key \in pressed_keys :
    /\ ticks \in frames \/ ~Holding
    /\ on_key_release(key)

(***************************************************************************)
(* SpecRun: long runs, up to MaxRunTicks frames with the keys held, with   *)
(* no zone or with one zone on the way of an actor moving right.           *)
(***************************************************************************)
ReleaseTicks == {3, 10, 60, 460, 2000, MaxRunTicks}

RunLayouts == { <<>>, << <<300, 0>> >> }

InitRun == Setup /\ slow_zones \in RunLayouts

TickRun == TickHeld(MaxRunTicks)

KeyPressRun == KeyPressHeld

KeyReleaseRun == KeyReleaseHeld(ReleaseTicks)

NextRun == TickRun \/ KeyPressRun \/ KeyReleaseRun

SpecRun == InitRun /\ [][NextRun]_vars

(***************************************************************************)
(* SpecCoast: the keys are held for up to MaxCoastTicks frames (the speed  *)
(* ceiling reaches 10 within them), then released.  The window calls       *)
(* on_update on every frame, hence the fairness.                           *)
(***************************************************************************)
CoastReleaseTicks == {3, 10, 25, MaxCoastTicks}

TickCoast == TickHeld(MaxCoastTicks)

KeyPressCoast == KeyPressHeld

KeyReleaseCoast == KeyReleaseHeld(CoastReleaseTicks)

NextCoast == TickCoast \/ KeyPressCoast \/ KeyReleaseCoast

SpecCoast == InitRun /\ [][NextCoast]_vars /\ WF_vars(TickCoast)

(***************************************************************************)
(* SpecSpeed: Player.update_speed as a function of the energy and the zone *)
(* flag.  A Player holds an energy of EnergySamples (every half unit of    *)
(* [0, 100] and the values next to each tier bound) and either zone flag;  *)
(* update_speed is applied to it.  `ticks` counts the applications.        *)
(***************************************************************************)
EnergySamples ==
    { k * (EScale \div 2) : k \in 0..200 } \cup
    { e \in { energy_speed_levels[i][1] * EScale + d :
                  i \in 1..Len(energy_speed_levels), d \in {-1, 1} } : e >= 0 }
    \cup { max_energy - 1 }

\* Player.update_speed
update_speed ==
    /\ base_speed' = BaseSpeedFor(energy)
    /\ target_max_speed' = TargetMaxSpeedFor(BaseSpeedFor(energy), in_slow_zone)
    /\ UNCHANGED <<center_x, center_y, velocity_x, velocity_y, target_velocity_x,
                   target_velocity_y, current_max_speed, energy, in_slow_zone,
                   slow_zones, pressed_keys, camera_x, camera_y, events,
                   otherVars>>

InitSpeed ==
    /\ \E e \in EnergySamples, z \in BOOLEAN :
           AtRest(0, 0, e, z, 0 - (SCREEN_WIDTH \div 2) * PScale,
                  0 - (SCREEN_HEIGHT \div 2) * PScale)
    /\ slow_zones = <<>>

ApplySpeed == ticks = 0 /\ update_speed /\ ticks' = 1

SpecSpeed == InitSpeed /\ [][ApplySpeed]_vars

(***************************************************************************)
(* SpecCamera: MyGame.update_camera with a stationary actor.  The actor    *)
(* stands at rest at one of CameraCentres with no key down, the camera     *)
(* origin is at the world origin (where MyGame.__init__ puts it), and the  *)
(* frames run; `ticks` counts them, so it counts the update_camera calls.  *)
(***************************************************************************)
CameraCentres ==
    { <<0, 0>>, <<500 * PScale, 350 * PScale>>, <<300 * PScale, -200 * PScale>>,
      <<-1000 * PScale, 1000 * PScale>>, <<123457, -56789>>, <<50050, 34000>> }

InitCamera ==
    /\ \E c \in CameraCentres : AtRest(c[1], c[2], max_energy, FALSE, 0, 0)
    /\ slow_zones = <<>>

TickCamera == ticks < MaxCameraCalls /\ on_update /\ ticks' = ticks + 1

SpecCamera == InitCamera /\ [][TickCamera]_vars

(***************************************************************************)
(* SpecRamp: step 2 of Player.update, the ramp of current_max_speed toward *)
(* target_max_speed, with its sum rounded as the program rounds it.  The   *)
(* ramp starts from rest or from a ceiling that has settled on a tier      *)
(* speed; every step update_speed may have left any of the targets it can  *)
(* produce.  `ticks` counts the steps.                                     *)
(***************************************************************************)
\* the values update_speed can leave in target_max_speed
TierTargets ==
    { TargetMaxSpeedFor(energy_speed_levels[i][3], z) :
          i \in 1..Len(energy_speed_levels), z \in BOOLEAN }

InitRamp ==
    /\ center_x = 0 /\ center_y = 0
    /\ velocity_x = 0 /\ velocity_y = 0
    /\ target_velocity_x = 0 /\ target_velocity_y = 0
    /\ current_max_speed \in {0} \cup { t * VScale : t \in TierTargets }
    /\ energy = max_energy
    /\ in_slow_zone = FALSE
    /\ base_speed = BaseSpeedFor(max_energy)
    /\ target_max_speed = TargetMaxSpeedFor(BaseSpeedFor(max_energy), FALSE)
    /\ slow_zones = <<>> /\ pressed_keys = {}
    /\ camera_x = 0 - (SCREEN_WIDTH \div 2) * PScale
    /\ camera_y = 0 - (SCREEN_HEIGHT \div 2) * PScale
    /\ ticks = 0 /\ events = 0
    /\ OthersIdle

\* update, step 2, after an update_speed that left the target t
ApplyRamp == \E t \in TierTargets :
    /\ ticks < MaxRampSteps
    /\ target_max_speed' = t
    /\ current_max_speed' = RampSpeedFloat(current_max_speed, t)
    /\ ticks' = ticks + 1
    /\ UNCHANGED <<center_x, center_y, velocity_x, velocity_y, target_velocity_x,
                   target_velocity_y, base_speed, energy, in_slow_zone,
                   slow_zones, pressed_keys, camera_x, camera_y, events,
                   otherVars>>

SpecRamp == InitRamp /\ [][ApplyRamp]_vars

(***************************************************************************)
(* SpecInput: Player.handle_input as a function of the key set and the     *)
(* speed ceiling.  Any set of the eight movement keys and one other key is *)
(* down, the ceiling is one of CeilingSamples (the first steps of the ramp *)
(* and the tier speeds), and handle_input is applied; `ticks` counts the   *)
(* applications.                                                           *)
(***************************************************************************)
InputKeys == DOMAIN direction_map \cup {"SPACE"}

CeilingSamples ==
    { k * acceleration_rate : k \in 0..5 } \cup { t * VScale : t \in TierTargets }

InitInput ==
    /\ center_x = 0 /\ center_y = 0
    /\ velocity_x = 0 /\ velocity_y = 0
    /\ target_velocity_x = 0 /\ target_velocity_y = 0
    /\ current_max_speed \in CeilingSamples
    /\ energy = max_energy
    /\ in_slow_zone = FALSE
    /\ base_speed = BaseSpeedFor(max_energy)
    /\ target_max_speed = TargetMaxSpeedFor(BaseSpeedFor(max_energy), FALSE)
    /\ slow_zones = <<>>
    /\ pressed_keys \in SUBSET InputKeys
    /\ camera_x = 0 - (SCREEN_WIDTH \div 2) * PScale
    /\ camera_y = 0 - (SCREEN_HEIGHT \div 2) * PScale
    /\ ticks = 0 /\ events = 0
    /\ OthersIdle

\* Player.handle_input(pressed_keys)
handle_input ==
    /\ target_velocity_x' = InputSum(pressed_keys, 1, current_max_speed)
    /\ target_velocity_y' = InputSum(pressed_keys, 2, current_max_speed)
    /\ UNCHANGED <<center_x, center_y, velocity_x, velocity_y, current_max_speed,
                   base_speed, target_max_speed, energy, in_slow_zone,
                   slow_zones, pressed_keys, camera_x, camera_y, events,
                   otherVars>>

ApplyInput == ticks = 0 /\ handle_input /\ ticks' = 1

SpecInput == InitInput /\ [][ApplyInput]_vars

(***************************************************************************)
(* SpecZones: the zone test with several zones.  The world has any list of *)
(* up to MaxZoneList zones of ZoneCentres, in any order and with repeats   *)
(* (setup draws the centres independently); the actor starts at the        *)
(* origin, D may go down and up again once, and the frames run: the actor  *)
(* moves right, into the zones centred at 80 and 81 and out of the one     *)
(* centred at -79.                                                         *)
(***************************************************************************)
ZoneLists == UNION { Layouts(n) : n \in 0..MaxZoneList }

InitZones == Setup /\ slow_zones \in ZoneLists

TickZones == ticks < MaxZoneTicks /\ on_update /\ ticks' = ticks + 1

KeyPressZones == events = 0 /\ on_key_press("D")

KeyReleaseZones == events = 1 /\ "D" \in pressed_keys /\ on_key_release("D")

NextZones == TickZones \/ KeyPressZones \/ KeyReleaseZones

SpecZones == InitZones /\ [][NextZones]_vars

(***************************************************************************)
(* SpecCell: a Cell of core/cell.py.  It is constructed with one of a few  *)
(* velocities and energies, its genes and its velocity may be set before   *)
(* its first update, and then update is called again and again (down to   *)
(* an energy of -MaxDebt), with up to MaxFeeds add_energy calls in         *)
(* between.  `ticks` counts the update calls, `events` the add_energy      *)
(* calls.                                                                  *)
(***************************************************************************)
\* add_energy calls of a run
MaxFeeds == 2
\* energy below zero down to which update is called
MaxDebt == 3

CellVelocities == { <<0, 0>>, <<1, 0>>, <<-2, 3>> }

\* the default energy 100, a small one, half a unit, none, and a negative one
CellEnergies == { 100 * CScale, 2 * CScale, 1, 0, 0 - CScale }

FeedAmounts == { 1, 5 * CScale }

\* the game of physics.py as __init__ builds it, not running
PlayerIdle ==
    /\ center_x = 0 /\ center_y = 0
    /\ velocity_x = 0 /\ velocity_y = 0
    /\ target_velocity_x = 0 /\ target_velocity_y = 0
    /\ current_max_speed = 0
    /\ energy = max_energy
    /\ in_slow_zone = FALSE
    /\ base_speed = BaseSpeedFor(max_energy)
    /\ target_max_speed = TargetMaxSpeedFor(BaseSpeedFor(max_energy), FALSE)
    /\ slow_zones = <<>> /\ pressed_keys = {}
    /\ camera_x = 0 /\ camera_y = 0
    /\ ticks = 0 /\ events = 0

InitCell ==
    /\ PlayerIdle
    /\ \E v \in CellVelocities, e \in CellEnergies : cell = Cell(0, 0, v[1], v[2], e)
    /\ coin_game = CoinGame(<<>>)
    /\ keyboard = {}

\* a call of Cell.update
CellUpdate ==
    /\ cell.energy > 0 - MaxDebt * CScale
    /\ cell' = Cell_update(cell)
    /\ ticks' = ticks + 1
    /\ UNCHANGED <<playerVars, slow_zones, pressed_keys, camera_x, camera_y,
                   events, coin_game, keyboard>>

\* a call of Cell.add_energy
CellAddEnergy == \E amount \in FeedAmounts :
    /\ events < MaxFeeds
    /\ cell' = add_energy(cell, amount)
    /\ events' = events + 1
    /\ UNCHANGED <<playerVars, slow_zones, pressed_keys, camera_x, camera_y,
                   ticks, coin_game, keyboard>>

\* a call of Cell.set_genes before the first update
CellSetGenes == \E speed \in {2, 3}, size \in {1, 2} :
    /\ ticks = 0 /\ events = 0 /\ cell.genes = [speed |-> 1, size |-> 1]
    /\ cell' = set_genes(cell, speed, size)
    /\ UNCHANGED <<playerVars, slow_zones, pressed_keys, camera_x, camera_y,
                   ticks, events, coin_game, keyboard>>

\* a call of Cell.set_velocity on a resting cell before the first update
CellSetVelocity == \E v \in CellVelocities \ { <<0, 0>> } :
    /\ ticks = 0 /\ events = 0 /\ cell.vx = 0 /\ cell.vy = 0
    /\ cell' = set_velocity(cell, v[1], v[2])
    /\ UNCHANGED <<playerVars, slow_zones, pressed_keys, camera_x, camera_y,
                   ticks, events, coin_game, keyboard>>

NextCell == CellUpdate \/ CellAddEnergy \/ CellSetGenes \/ CellSetVelocity

SpecCell == InitCell /\ [][NextCell]_vars /\ WF_vars(CellUpdate)

(***************************************************************************)
(* SpecCoins: the coin game of ai/behavior.py.  The window starts with one *)
(* of CoinLayouts; keys go down and up at the keyboard in any order (the   *)
(* window reports each change at once), and on_update runs in between.     *)
(* `ticks` counts the on_update calls, `events` the key presses.           *)
(***************************************************************************)
\* on_update calls of a run
MaxCoinTicks == 5
\* key presses of a run
MaxCoinPresses == 3

\* the eight movement keys and a key that is none
CoinKeys == {"LEFT", "A", "RIGHT", "D", "UP", "W", "DOWN", "S", "SPACE"}

InitCoins ==
    /\ PlayerIdle
    /\ cell = Cell(0, 0, 0, 0, 100 * CScale)
    /\ \E spots \in CoinLayouts : coin_game = CoinGame(spots)
    /\ keyboard = {}

\* a frame of the coin game
TickCoins ==
    /\ ticks < MaxCoinTicks
    /\ coin_game' = coin_on_update(coin_game)
    /\ ticks' = ticks + 1
    /\ UNCHANGED <<playerVars, slow_zones, pressed_keys, camera_x, camera_y,
                   events, cell, keyboard>>

\* a key goes down and the window calls on_key_press
KeyPressCoins == \E key \in CoinKeys \ keyboard :
    /\ events < MaxCoinPresses
    /\ keyboard' = keyboard \cup {key}
    /\ coin_game' = coin_on_key_press(coin_game, key)
    /\ events' = events + 1
    /\ UNCHANGED <<playerVars, slow_zones, pressed_keys, camera_x, camera_y,
                   ticks, cell>>

\* a held key goes up and the window calls on_key_release
KeyReleaseCoins == \E key \in keyboard :
    /\ keyboard' = keyboard \ {key}
    /\ coin_game' = coin_on_key_release(coin_game, key)
    /\ UNCHANGED <<playerVars, slow_zones, pressed_keys, camera_x, camera_y,
                   ticks, events, cell>>

NextCoins == TickCoins \/ KeyPressCoins \/ KeyReleaseCoins

SpecCoins == InitCoins /\ [][NextCoins]_vars

(***************************************************************************)
(* Claims                                                                  *)
(***************************************************************************)
\* a long run with exactly one key held and no zone in the world
SingleHeld == Holding /\ Cardinality(pressed_keys) = 1 /\ slow_zones = <<>>

\* C1: in every reachable state the energy lies in [0, max_energy].
C1_EnergyInRange == 0 <= energy /\ energy <= max_energy

\* C1 witness: a long run has drained the energy down to the floor 0 while
\* the actor is still moving.
C1_Witness == Holding /\ ticks > 0 /\ energy = 0 /\ velocity_x > Threshold

\* C2 (as claimed): after every update the velocity magnitude does not exceed
\* current_max_speed.
C2_Original == hypot(velocity_x, velocity_y) <= current_max_speed

\* C2 (amended): after every update the velocity magnitude exceeds
\* current_max_speed by at most one unit in the last place, the rounding of
\* the clamp's own scaling.
C2_SpeedWithinEpsilon == hypot(velocity_x, velocity_y) <= current_max_speed + 1

\* C2 witness: a tick on which the ceiling was coming down (it is still above
\* its target) and the clamp has cut a diagonal velocity to the ceiling.
C2_Witness ==
    /\ ticks > 0
    /\ current_max_speed > target_max_speed * VScale
    /\ velocity_x > 0 /\ velocity_y > 0
    /\ hypot(velocity_x, velocity_y) >= current_max_speed

\* C3 (as claimed): an update_speed that reads energy = max_energy outside every
\* zone yields target_max_speed = 10, on any frame.
C3_TopTierIncludesMax ==
    [][(ticks' = ticks + 1 /\ energy = max_energy /\ ~in_slow_zone)
           => target_max_speed' = 10]_vars

\* C4 (as claimed): the first frame of a fresh game with only D (right) held leaves
\* target_max_speed = 10, current_max_speed = 0.2, velocity_x > 0 and center_x
\* advanced by that velocity.
C4_FirstTick ==
    [][(ticks = 0 /\ ticks' = 1 /\ pressed_keys = {"D"} /\ slow_zones = <<>>)
           => /\ target_max_speed' = 10
              /\ current_max_speed' = acceleration_rate
              /\ velocity_x' > 0
              /\ center_x' = Integrate(center_x, velocity_x')]_vars

\* C5 (as claimed, last part): with one key held and no zone, once
\* current_max_speed is 10 it stays 10.
C5_Original ==
    [][(SingleHeld /\ current_max_speed = 10 * VScale)
           => current_max_speed' = 10 * VScale]_vars

\* C5 (amended): with one key held from a fresh start and no zone, while the
\* energy read by the frame is at least 80 current_max_speed never decreases,
\* and from frame 51 on (10 / acceleration_rate frames, plus one for the
\* program's rounding) it is 10; it leaves 10 only when energy falls below 80.
C5_RampThenHoldWhileTopTier ==
    [][(SingleHeld /\ ticks' = ticks + 1 /\ energy >= 80 * EScale)
           => /\ current_max_speed' >= current_max_speed
              /\ (ticks' >= 51 => current_max_speed' = 10 * VScale)]_vars

\* C5 witness: the ceiling has reached 10 and is held there in the top tier.
C5_Witness ==
    /\ SingleHeld /\ ticks >= 51 /\ energy >= 80 * EScale
    /\ current_max_speed = 10 * VScale

\* C6 (as claimed): on every frame with no key down the velocity magnitude does
\* not grow, and once the keys are released for good it eventually falls below
\* every positive bound, the smallest positive magnitude (one unit in the last
\* place) included, which leaves only the velocity (0, 0).
C6_Original ==
    /\ [][pressed_keys = {}
             => hypot(velocity_x', velocity_y') <= hypot(velocity_x, velocity_y)]_vars
    /\ Coasting ~> (velocity_x = 0 /\ velocity_y = 0)

\* C6 (amended): on every frame with no key down the velocity magnitude does
\* not grow, and once the keys are released for good each component eventually
\* is at most 6 units in the last place (so the magnitude is far below the
\* movement threshold 0.1) and stays so.
C6_DecayToRoundingFloor ==
    /\ [][pressed_keys = {}
             => hypot(velocity_x', velocity_y') <= hypot(velocity_x, velocity_y)]_vars
    /\ Coasting ~> [](Abs(velocity_x) <= 6 /\ Abs(velocity_y) <= 6)

\* C6 witness: the actor coasts with a velocity that friction no longer
\* reduces: it is not zero and 0.92 times it rounds back to it.
C6_Witness ==
    /\ Coasting /\ velocity_x # 0
    /\ Friction(velocity_x, 0, 0) = velocity_x
    /\ SmoothAxis(velocity_x, 0) = velocity_x

\* C7 (as claimed): with one key held and no zone, energy is 0 after 2000 frames.
C7_Original == (SingleHeld /\ ticks = 2000) => energy = 0

\* C7 (amended): with one key held and no zone, energy reaches 0 at frame 4689
\* and not before (the tiers slow the actor as energy falls), and whenever
\* energy is 0 current_max_speed and target_max_speed are at the lowest tier
\* value 1.
C7_DepletionThroughTiers ==
    SingleHeld =>
        /\ (energy = 0 <=> ticks >= 4689)
        /\ (energy = 0 => (current_max_speed = VScale /\ target_max_speed = 1))

\* C7 witness: frames after the depletion, the key still held, the ceiling at 1.
C7_Witness ==
    /\ SingleHeld /\ ticks > 4689 /\ energy = 0
    /\ current_max_speed = VScale /\ velocity_x = VScale

\* the distance between the actor centre and the centre of zone i of the list
ZoneDistance(i) ==
    hypot(center_x - slow_zones[i][1] * PScale, center_y - slow_zones[i][2] * PScale)

\* C8: after every frame the zone flag is true exactly when some zone's centre
\* is at a distance strictly below 20 + 60 = 80 from the actor's centre; so a
\* zone at distance 79 sets it, and zones at 80 or 81 alone do not.
C8_CollisionIffCloser ==
    ticks > 0 =>
        /\ in_slow_zone <=>
              \E i \in 1..Len(slow_zones) : ZoneDistance(i) < 80 * PScale
        /\ \A i \in 1..Len(slow_zones) :
              ZoneDistance(i) = 79 * PScale => in_slow_zone
        /\ (\A i \in 1..Len(slow_zones) :
              ZoneDistance(i) \in {80 * PScale, 81 * PScale}) => ~in_slow_zone

\* C8 witness: the actor's circle touches a zone's circle (distance exactly 80)
\* and the frame's test has left the flag false.
C8_Witness ==
    /\ ticks > 0 /\ Len(slow_zones) > 0
    /\ \A i \in 1..Len(slow_zones) : ZoneDistance(i) = 80 * PScale
    /\ ~in_slow_zone

\* the camera gap target - camera on each axis, and its value before the
\* first call of SpecCamera (camera origin at the world origin)
CameraGapX == (center_x - (SCREEN_WIDTH \div 2) * PScale) - camera_x
CameraGapY == (center_y - (SCREEN_HEIGHT \div 2) * PScale) - camera_y
CameraGap0X == center_x - (SCREEN_WIDTH \div 2) * PScale
CameraGap0Y == center_y - (SCREEN_HEIGHT \div 2) * PScale

\* C9 (as claimed): with a stationary actor every update_camera call multiplies
\* the gap on each axis by exactly 0.9; it is below 1% of its initial value
\* after 44 calls and not after 43; a non-zero gap never becomes zero.
C9_Original ==
    [][/\ 10 * CameraGapX' = 9 * CameraGapX
       /\ 10 * CameraGapY' = 9 * CameraGapY
       /\ (ticks' = 44 /\ CameraGap0X # 0) => 100 * Abs(CameraGapX') < Abs(CameraGap0X)
       /\ (ticks' = 43 /\ CameraGap0X # 0) => 100 * Abs(CameraGapX') >= Abs(CameraGap0X)
       /\ CameraGap0X # 0 => CameraGapX' # 0]_vars

\* C9 (amended): with a stationary actor every update_camera call multiplies
\* the gap on each axis by 0.9 up to the rounding of the step (half a unit in
\* the last place) and never enlarges it; a gap that starts at 100 world units
\* or more is below 1% of its initial value after 44 calls and not after 43;
\* a non-zero gap never becomes zero.
C9_GapShrinksByTenth ==
    [][/\ Abs(10 * CameraGapX' - 9 * CameraGapX) <= 5
       /\ Abs(10 * CameraGapY' - 9 * CameraGapY) <= 5
       /\ Abs(CameraGapX') <= Abs(CameraGapX)
       /\ Abs(CameraGapY') <= Abs(CameraGapY)
       /\ (ticks' = 44 /\ Abs(CameraGap0X) >= 100 * PScale)
              => 100 * Abs(CameraGapX') < Abs(CameraGap0X)
       /\ (ticks' = 44 /\ Abs(CameraGap0Y) >= 100 * PScale)
              => 100 * Abs(CameraGapY') < Abs(CameraGap0Y)
       /\ (ticks' = 43 /\ Abs(CameraGap0X) >= 100 * PScale)
              => 100 * Abs(CameraGapX') >= Abs(CameraGap0X)
       /\ (ticks' = 43 /\ Abs(CameraGap0Y) >= 100 * PScale)
              => 100 * Abs(CameraGapY') >= Abs(CameraGap0Y)
       /\ CameraGap0X # 0 => CameraGapX' # 0
       /\ CameraGap0Y # 0 => CameraGapY' # 0]_vars

\* C9 witness: 44 calls after a displacement of 100 units or more on both axes,
\* both gaps are below 1% of what they were and neither is zero.
C9_Witness ==
    /\ ticks = 44
    /\ Abs(CameraGap0X) >= 100 * PScale /\ Abs(CameraGap0Y) >= 100 * PScale
    /\ 100 * Abs(CameraGapX) < Abs(CameraGap0X) /\ CameraGapX # 0
    /\ 100 * Abs(CameraGapY) < Abs(CameraGap0Y) /\ CameraGapY # 0

\* C10: every update_speed leaves target_max_speed = max(base_speed - 2, 1)
\* when the zone flag is set and = base_speed otherwise, and so at least 1.
C10_ZonePenaltyFloored ==
    [][/\ target_max_speed' =
              (IF in_slow_zone THEN Max(base_speed' - 2, 1) ELSE base_speed')
       /\ target_max_speed' >= 1]_vars

\* C10 witness: update_speed ran in a zone at an energy of tier speed 2, and
\* the floor kept the ceiling at 1.
C10_Witness ==
    /\ ticks = 1 /\ in_slow_zone /\ energy < max_energy
    /\ base_speed = 2 /\ target_max_speed = 1

\* C11: every frame translates the input, updates the player, tests the zones
\* and moves the camera, in this order: the speed lookup of the frame uses the
\* zone flag the previous frame left (so target_max_speed is the tier speed of
\* the energy before the frame, less 2 under that flag, at least 1), the new
\* flag is the zone test at the position after the frame's movement, and the
\* camera steps toward that position.
C11_ZoneFlagLagsOneFrame ==
    [][ticks' # ticks
           => /\ target_velocity_x' = InputSum(pressed_keys, 1, current_max_speed)
              /\ target_velocity_y' = InputSum(pressed_keys, 2, current_max_speed)
              /\ target_max_speed' =
                     Max(BaseSpeedFor(energy) - (IF in_slow_zone THEN 2 ELSE 0), 1)
              /\ in_slow_zone' =
                     AnyCollision(slow_zones, 1, center_x', center_y', PLAYER_RADIUS)
              /\ camera_x' = CameraStep(camera_x, center_x', SCREEN_WIDTH)
              /\ camera_y' = CameraStep(camera_y, center_y', SCREEN_HEIGHT)]_vars

\* C11 witness: the frame just run moved the actor into a zone; the flag is
\* set, and the ceiling the frame looked up is still the one without penalty.
C11_Witness ==
    /\ ticks > 0 /\ in_slow_zone
    /\ target_max_speed = energy_speed_levels[1][3]
    /\ ~AnyCollision(slow_zones, 1, 0, 0, PLAYER_RADIUS)

\* C12: before the first frame the camera origin is the actor position minus
\* half the screen extent on each axis (the gap is zero), and every later
\* change of the camera origin is the interpolation step of a frame: the
\* origin moves by a tenth of its gap to the target of the new actor position.
C12_CameraSetThenInterpolated ==
    /\ [](ticks = 0 => /\ camera_x = center_x - (SCREEN_WIDTH \div 2) * PScale
                       /\ camera_y = center_y - (SCREEN_HEIGHT \div 2) * PScale)
    /\ [][(camera_x' # camera_x \/ camera_y' # camera_y)
             => /\ ticks' = ticks + 1
                /\ camera_x' = camera_x + RoundDiv(
                       center_x' - (SCREEN_WIDTH \div 2) * PScale - camera_x, 10)
                /\ camera_y' = camera_y + RoundDiv(
                       center_y' - (SCREEN_HEIGHT \div 2) * PScale - camera_y, 10)]_vars

\* C12 witness: frames have moved the actor up and to the right and the camera
\* origin has left its setup value on both axes, trailing the actor.
C12_Witness ==
    /\ ticks > 0
    /\ camera_x > 0 - (SCREEN_WIDTH \div 2) * PScale
    /\ camera_y > 0 - (SCREEN_HEIGHT \div 2) * PScale
    /\ camera_x < center_x - (SCREEN_WIDTH \div 2) * PScale
    /\ camera_y < center_y - (SCREEN_HEIGHT \div 2) * PScale

\* C13: a key event between two frames changes the key set by that one key
\* and nothing else (target velocity, velocity, position, energy, speed fields,
\* zone flag and camera keep their values), in any interleaving of events and
\* frames; the next frame translates the key set as the events left it.
C13_KeyEventsOnlyChangeKeySet ==
    [][/\ pressed_keys' # pressed_keys
           => /\ \E key \in Keys : \/ pressed_keys' = pressed_keys \cup {key}
                                   \/ pressed_keys' = pressed_keys \ {key}
              /\ UNCHANGED <<playerVars, camera_x, camera_y, slow_zones, ticks>>
       /\ ticks' # ticks
           => /\ pressed_keys' = pressed_keys
              /\ target_velocity_x' = InputSum(pressed_keys, 1, current_max_speed)
              /\ target_velocity_y' = InputSum(pressed_keys, 2, current_max_speed)]_vars

\* C13 witness: D went down after the second or a later frame, when the speed
\* ceiling is no longer 0, and no frame has run since: the target velocity is
\* still the 0 of the frame before the event.
C13_Witness ==
    /\ ticks > 1 /\ events = 1 /\ pressed_keys = {"D"}
    /\ current_max_speed > 0
    /\ target_velocity_x = 0 /\ velocity_x = 0

\* C14 (as claimed): every step of the ramp moves current_max_speed toward
\* target_max_speed by at most acceleration_rate upward or deceleration_rate
\* downward, never past the target, and leaves it alone when it equals the
\* target.
C14_Original ==
    [][ticks' # ticks
           => LET t == target_max_speed' * VScale
              IN  /\ current_max_speed' - current_max_speed <= acceleration_rate
                  /\ current_max_speed - current_max_speed' <= deceleration_rate
                  /\ current_max_speed < t
                         => (current_max_speed <= current_max_speed'
                             /\ current_max_speed' <= t)
                  /\ current_max_speed > t
                         => (current_max_speed >= current_max_speed'
                             /\ current_max_speed' >= t)
                  /\ current_max_speed = t
                         => current_max_speed' = current_max_speed]_vars

\* C14 (amended): as claimed, but the step is at most acceleration_rate or
\* deceleration_rate only up to the rounding of the sum, half a unit in the
\* last place of the new value.
C14_RampBoundedUpToRounding ==
    [][ticks' # ticks
           => LET t == target_max_speed' * VScale
              IN  /\ 2 * (current_max_speed' - current_max_speed)
                         <= 2 * acceleration_rate + Ulp(current_max_speed')
                  /\ 2 * (current_max_speed - current_max_speed')
                         <= 2 * deceleration_rate + Ulp(current_max_speed')
                  /\ current_max_speed < t
                         => (current_max_speed <= current_max_speed'
                             /\ current_max_speed' <= t)
                  /\ current_max_speed > t
                         => (current_max_speed >= current_max_speed'
                             /\ current_max_speed' >= t)
                  /\ current_max_speed = t
                         => current_max_speed' = current_max_speed]_vars

\* C14 witness: the ceiling is on its way down to its target and the rounding
\* of a difference has taken it off the multiples of 0.1.
C14_Witness ==
    /\ ticks > 0
    /\ current_max_speed > target_max_speed * VScale
    /\ current_max_speed % (VScale \div 10) # 0

\* the velocity magnitude a frame hands to its clamp: hypot of the velocity
\* after the smoothing and the friction of that frame (update, steps 3 - 5)
SpeedBeforeClamp ==
    hypot(Friction(SmoothAxis(velocity_x, target_velocity_x'),
                   target_velocity_x', target_velocity_y'),
          Friction(SmoothAxis(velocity_y, target_velocity_y'),
                   target_velocity_x', target_velocity_y'))

\* C15: on no frame does the clamp divide by zero: whenever the scaling
\* current_max_speed / speed is computed the magnitude is not zero, and with a
\* magnitude of zero the frame leaves the velocity (0, 0).
C15_ClampNeverDividesByZero ==
    [][ticks' # ticks
           => /\ ClampDivides(SpeedBeforeClamp, current_max_speed')
                     => SpeedBeforeClamp # 0
              /\ SpeedBeforeClamp = 0
                     => (velocity_x' = 0 /\ velocity_y' = 0)]_vars

\* C15 witness: the first frame of a fresh game has run with a key down; it
\* found the velocity and the ceiling at 0, and left the velocity at 0.
C15_Witness ==
    /\ ticks = 1 /\ pressed_keys # {}
    /\ velocity_x = 0 /\ velocity_y = 0
    /\ current_max_speed = acceleration_rate

\* C16 (as claimed): on every frame the target velocity is the net input
\* direction scaled by the value current_max_speed has after the ramp of the
\* same frame.
C16_TargetUsesRampedCeiling ==
    [][ticks' # ticks
           => /\ target_velocity_x' = InputSum(pressed_keys, 1, current_max_speed')
              /\ target_velocity_y' = InputSum(pressed_keys, 2, current_max_speed')]_vars

\* C17 (as claimed): on a frame whose target velocity is (0, 0) the velocity
\* handed to the clamp is 0.92 times the velocity at the start of the frame on
\* each axis, the interpolation toward the target adding nothing, so that the
\* frame leaves the clamp of exactly that velocity.
C17_FrictionReplacesInterpolation ==
    [][(ticks' # ticks \/ Coasting)
        /\ target_velocity_x' = 0 /\ target_velocity_y' = 0
           => LET fx == RoundDiv(velocity_x * 92, 100)
                  fy == RoundDiv(velocity_y * 92, 100)
              IN  /\ velocity_x' = ClampAxis(fx, hypot(fx, fy), current_max_speed')
                  /\ velocity_y' = ClampAxis(fy, hypot(fx, fy), current_max_speed')]_vars

\* C18 (as claimed): whenever a frame lowers the energy, the decrease is the
\* magnitude of the velocity the frame leaves (after its clamp) times 0.005,
\* or all the energy left if that is less, and so at most current_max_speed
\* times 0.005; the magnitude is taken up to the one unit in the last place
\* the clamp's rounding can add or remove.
C18_DrainFromClampedVelocity ==
    [][(ticks' # ticks /\ energy' < energy)
           => LET after == hypot(velocity_x', velocity_y')
                  perUnit == (5 * EScale) \div (1000 * VScale)
              IN  /\ energy - energy' <= Min(energy, (after + 1) * perUnit)
                  /\ energy - energy' >= Min(energy, (after - 1) * perUnit)
                  /\ energy - energy' <= (current_max_speed' + 1) * perUnit]_vars

\* C19 (as claimed): whatever keys are down, each target velocity component a
\* frame computes is minus, zero or plus the current_max_speed its
\* handle_input read.
C19_DirectionCountsOnce ==
    [][ticks' # ticks
           => /\ target_velocity_x' \in {0 - current_max_speed, 0, current_max_speed}
              /\ target_velocity_y' \in {0 - current_max_speed, 0, current_max_speed}]_vars

\* the keys of pressed_keys bound to the vector with component d on axis
\* (1: x, 2: y)
KeysToward(axis, d) ==
    { k \in pressed_keys \cap DOMAIN direction_map : direction_map[k][axis] = d }

\* C20: after handle_input, an axis with exactly one key down for each of its
\* two directions has target 0, and each axis's target is set by the keys of
\* that axis alone (the keys of one direction less the keys of the other, times
\* current_max_speed): keys of the other axis and keys that move nothing do
\* not enter it.
C20_OppositeKeysCancel ==
    ticks = 1 =>
        /\ (Cardinality(KeysToward(1, 1)) = 1 /\ Cardinality(KeysToward(1, -1)) = 1)
               => target_velocity_x = 0
        /\ (Cardinality(KeysToward(2, 1)) = 1 /\ Cardinality(KeysToward(2, -1)) = 1)
               => target_velocity_y = 0
        /\ target_velocity_x = current_max_speed *
               (Cardinality(pressed_keys \cap {"D", "RIGHT"})
                    - Cardinality(pressed_keys \cap {"A", "LEFT"}))
        /\ target_velocity_y = current_max_speed *
               (Cardinality(pressed_keys \cap {"W", "UP"})
                    - Cardinality(pressed_keys \cap {"S", "DOWN"}))

\* C20 witness: handle_input ran with left, right, up and a key that moves
\* nothing down and a ceiling above 0; the x target is 0, the y target is the
\* ceiling.
C20_Witness ==
    /\ ticks = 1 /\ pressed_keys = {"A", "RIGHT", "W", "SPACE"}
    /\ current_max_speed > 0
    /\ target_velocity_x = 0 /\ target_velocity_y = current_max_speed

\* the velocity components a frame has after its smoothing (update, step 3)
SmoothedX == SmoothAxis(velocity_x, target_velocity_x')
SmoothedY == SmoothAxis(velocity_y, target_velocity_y')

\* C21: on every frame and on each axis by itself, the smoothing leaves a
\* component within 0.1 of its target as it is, and moves a component further
\* away strictly toward the target and not past it, by 0.2 of the gap when the
\* target of that axis is not 0 and by 0.3 of it when it is 0; a frame with
\* input and no clamping stores the smoothed velocity.
C21_SmoothingDeadZone ==
    [][ticks' # ticks
           => /\ \A a \in { <<velocity_x, target_velocity_x', SmoothedX>>,
                            <<velocity_y, target_velocity_y', SmoothedY>> } :
                    LET v == a[1]
                        t == a[2]
                        s == a[3]
                    IN  /\ Abs(v - t) <= Threshold => s = v
                        /\ (Abs(v - t) > Threshold /\ t > v) => (v < s /\ s < t)
                        /\ (Abs(v - t) > Threshold /\ t < v) => (t < s /\ s < v)
                        /\ (Abs(v - t) > Threshold /\ t # 0)
                               => s - v = RoundDiv((t - v) * 2, 10)
                        /\ (Abs(v - t) > Threshold /\ t = 0)
                               => s - v = RoundDiv((t - v) * 3, 10)
              /\ ((target_velocity_x' # 0 \/ target_velocity_y' # 0)
                  /\ hypot(SmoothedX, SmoothedY) <= current_max_speed')
                     => (velocity_x' = SmoothedX /\ velocity_y' = SmoothedY)]_vars

\* C21 witness: no key is down, the last frame had the target (0, 0) and found
\* velocity_x inside the dead zone: what it left is so small that only the
\* friction can have acted on it (0.7 * 0.92 of a velocity above 0.1 is more).
C21_Witness ==
    /\ ticks > 0 /\ pressed_keys = {}
    /\ target_velocity_x = 0 /\ target_velocity_y = 0
    /\ velocity_x > 0
    /\ 1000 * velocity_x < 644 * Threshold

\* C22: a frame whose speed is at most 0.1 takes an energy below max_energy to
\* min(max_energy, energy + 0.2) and leaves an energy of max_energy as it is;
\* a frame whose speed exceeds 0.1 (the speed the energy step reads, or the
\* magnitude of the velocity the frame stores) never raises the energy.
C22_RecoveryOnlyAtRest ==
    [][(ticks' # ticks \/ Coasting)
           => /\ (SpeedBeforeClamp <= Threshold /\ energy < max_energy)
                     => energy' = Min(max_energy, energy + Recovery)
              /\ (SpeedBeforeClamp <= Threshold /\ energy = max_energy)
                     => energy' = energy
              /\ SpeedBeforeClamp > Threshold => energy' <= energy
              /\ hypot(velocity_x', velocity_y') > Threshold => energy' <= energy]_vars

\* C22 witness: the keys were held long enough to drain energy, then released;
\* the actor has slowed below 0.1 and the recovery has brought the energy back
\* to max_energy, where the cap holds it.
C22_Witness ==
    /\ Coasting /\ ticks >= 10
    /\ hypot(velocity_x, velocity_y) <= Threshold
    /\ energy = max_energy

\* the distance a frame moves the actor, in units of velocity
DistanceMoved ==
    (VScale \div PScale) * hypot(center_x' - center_x, center_y' - center_y)

\* C23 (as claimed): every frame leaves the position at the position before
\* it plus the velocity it stores, and so moves the actor by no more than
\* current_max_speed.
C23_Original ==
    [][(ticks' # ticks \/ Coasting)
           => /\ (VScale \div PScale) * (center_x' - center_x) = velocity_x'
              /\ (VScale \div PScale) * (center_y' - center_y) = velocity_y'
              /\ DistanceMoved <= current_max_speed']_vars

\* C23 (amended): every frame leaves the position at the rounded sum of the
\* position before it and the velocity it stores (the velocity after the
\* clamp), the sum being rounded to the last place of the position; the
\* distance moved exceeds current_max_speed by no more than that rounding, two
\* units in the last place of the position.
C23_PositionIsRoundedSum ==
    [][(ticks' # ticks \/ Coasting)
           => /\ center_x' = center_x + RoundDiv(velocity_x', VScale \div PScale)
              /\ center_y' = center_y + RoundDiv(velocity_y', VScale \div PScale)
              /\ DistanceMoved <= current_max_speed' + 2 * (VScale \div PScale)]_vars

\* C23 witness: D and W have been held from the start; the actor has moved up
\* the diagonal with the clamp holding its velocity at the ceiling.
C23_Witness ==
    /\ Holding /\ pressed_keys = {"D", "W"} /\ ticks > 0
    /\ center_x > 0 /\ center_y = center_x
    /\ velocity_x > 0 /\ velocity_y = velocity_x
    /\ hypot(velocity_x, velocity_y) >= current_max_speed

\* C24: for an energy below max_energy update_speed leaves the base speed of
\* the half-open table: 1 on [0, 1), 2 on [1, 20), 4 on [20, 40), 6 on
\* [40, 60), 8 on [60, 80), 10 on [80, 100); an energy on a bound 1, 20, 40,
\* 60 or 80 gets the speed of the tier above it, and energy 0 gets 1.
C24_HalfOpenTiers ==
    [][(ticks' # ticks /\ 0 <= energy /\ energy < max_energy)
           => base_speed' =
                  IF energy < 1 * EScale THEN 1
                  ELSE IF energy < 20 * EScale THEN 2
                  ELSE IF energy < 40 * EScale THEN 4
                  ELSE IF energy < 60 * EScale THEN 6
                  ELSE IF energy < 80 * EScale THEN 8
                  ELSE 10]_vars

\* C24 witness: update_speed ran at an energy of exactly 80, the bound between
\* the two top tiers, and left the base speed 10.
C24_Witness ==
    /\ ticks = 1 /\ energy = 80 * EScale /\ base_speed = 10

\* the zone list in the order given by the permutation p of its indices
Reordered(p) == [i \in 1..Len(slow_zones) |-> slow_zones[p[i]]]

\* C25: no step adds, removes or changes a zone; every frame leaves the zone
\* flag true exactly when some zone of the list is closer than 80 to the
\* actor's new centre, whatever the order of the list (the test over every
\* reordering of it gives the flag), and the test leaves the position and the
\* energy as update computed them.
C25_ZoneTestPureAndOrderFree ==
    [][/\ slow_zones' = slow_zones
       /\ ticks' # ticks
           => /\ in_slow_zone' <=>
                    \E i \in 1..Len(slow_zones) :
                        hypot(center_x' - slow_zones[i][1] * PScale,
                              center_y' - slow_zones[i][2] * PScale) < 80 * PScale
              /\ \A p \in Permutations(1..Len(slow_zones)) :
                    in_slow_zone' = AnyCollision(Reordered(p), 1, center_x',
                                                 center_y', PLAYER_RADIUS)
              /\ center_x' = center_x + RoundDiv(velocity_x', VScale \div PScale)
              /\ center_y' = center_y + RoundDiv(velocity_y', VScale \div PScale)
              /\ energy' = EnergyAfter(energy, SpeedBeforeClamp)]_vars

\* C25 witness: a frame has run in a world of two zones of which the first of
\* the list does not overlap the actor and the second does; the flag is set.
C25_Witness ==
    /\ ticks > 0 /\ Len(slow_zones) = 2
    /\ ~check_collision(slow_zones[1], center_x, center_y, PLAYER_RADIUS)
    /\ check_collision(slow_zones[2], center_x, center_y, PLAYER_RADIUS)
    /\ in_slow_zone

\* C26: in every state 0 <= current_max_speed <= 10, and no step takes a
\* current_max_speed of 1 or more below 1.
C26_CeilingInRange ==
    /\ [](0 <= current_max_speed /\ current_max_speed <= 10 * VScale)
    /\ [][current_max_speed >= 1 * VScale => current_max_speed' >= 1 * VScale]_vars

\* C26 witness: two keys were held until the energy ran out; the ceiling has
\* come down from the top speed through the tiers to the lowest target 1 and
\* rests there.
C26_Witness ==
    /\ Holding /\ Cardinality(pressed_keys) = 2 /\ ticks > 0
    /\ energy = 0 /\ target_max_speed = 1
    /\ current_max_speed = 1 * VScale

\* the stored velocity has a magnitude of at most the movement threshold 0.1
SlowEnough ==
    /\ Abs(velocity_x) <= Threshold /\ Abs(velocity_y) <= Threshold
    /\ velocity_x * velocity_x + velocity_y * velocity_y <= Threshold * Threshold

\* C27: once the keys are released and none is pressed again, the speed
\* eventually is at most 0.1 and stays so; from then on every frame raises an
\* energy below max_energy by 0.2 (the last rise ending at max_energy) and
\* keeps an energy of max_energy; the energy eventually equals max_energy
\* and stays there.
C27_RecoveryAtRest ==
    /\ Coasting ~> [](SlowEnough)
    /\ [][(Coasting /\ SlowEnough)
             => /\ SlowEnough'
                /\ energy < max_energy
                       => energy' = Min(max_energy, energy + Recovery)
                /\ energy = max_energy => energy' = max_energy]_vars
    /\ Coasting ~> [](energy = max_energy)

\* C27 witness: the keys were held for all the frames of the run and then
\* released; the actor has slowed below 0.1 and the recovery is one frame
\* short of max_energy.
C27_Witness ==
    /\ Coasting /\ ticks = MaxCoastTicks
    /\ SlowEnough
    /\ energy < max_energy /\ energy + Recovery > max_energy

\* C28: every Cell.update call lowers the energy by metabolism_cost 0.5,
\* whatever the velocity and whether or not the cell is alive, and advances
\* the position by the velocity times the speed gene; is_alive is energy > 0;
\* a cell that is not alive stays so unless add_energy is called, and once the
\* add_energy calls have ended the cell eventually is not alive, for good.
C28_MetabolismUnconditional ==
    /\ [][ticks' = ticks + 1
             => /\ 2 * (cell.energy - cell'.energy) = CScale
                /\ cell'.x = cell.x + cell.vx * cell.genes.speed
                /\ cell'.y = cell.y + cell.vy * cell.genes.speed]_vars
    /\ [](is_alive(cell) <=> cell.energy > 0)
    /\ [][(events' = events /\ ~is_alive(cell)) => ~is_alive(cell')]_vars
    /\ <>[](~is_alive(cell))

\* C28 witness: a cell built with the default energy 100 and a velocity was
\* never fed; 200 updates took its energy to 0 and later ones below, and the
\* updates after that still moved it.
C28_Witness ==
    /\ events = 0 /\ ticks > 200
    /\ cell.energy < 0 /\ ~is_alive(cell)
    /\ cell.vx # 0 /\ cell.x = ticks * cell.vx * cell.genes.speed

\* the coins of the game whose collected flag is set
Collected(g) == { i \in 1..Len(g.coins) : g.coins[i].collected }

\* C29 (as claimed): in the coin game, whatever the order of the key presses
\* and releases, the movement flag of a direction is true exactly while at
\* least one of the two keys bound to that direction is held down.
C29_FlagIffKeyHeld ==
    /\ coin_game.left_pressed <=> (keyboard \cap {"LEFT", "A"} # {})
    /\ coin_game.right_pressed <=> (keyboard \cap {"RIGHT", "D"} # {})
    /\ coin_game.up_pressed <=> (keyboard \cap {"UP", "W"} # {})
    /\ coin_game.down_pressed <=> (keyboard \cap {"DOWN", "S"} # {})

\* C30: in the coin game the score is 10 plus the number of coins whose
\* collected flag is set; a set flag stays set, so the score never falls, and
\* it is at most 10 + COIN_COUNT.
C30_ScoreCountsCollected ==
    /\ [](/\ Len(coin_game.coins) = COIN_COUNT
          /\ coin_game.score = 10 + Cardinality(Collected(coin_game))
          /\ coin_game.score <= 10 + COIN_COUNT)
    /\ [][/\ Collected(coin_game) \subseteq Collected(coin_game')
          /\ coin_game'.score >= coin_game.score]_vars

\* C30 witness: the player has walked to where it touches the last of the
\* coins, all near the start; every flag is set and the score is at its
\* maximum 10 + COIN_COUNT.
C30_Witness ==
    /\ ticks > 1
    /\ coin_game.x # 400
    /\ Collected(coin_game) = 1..COIN_COUNT
    /\ coin_game.score = 10 + COIN_COUNT

====
